---- MODULE Spec2Model ----
(***************************************************************************)
(* A state-machine model of the Terabox Telegram bot (src/bot.py).         *)
(*                                                                         *)
(* The bot is one asyncio event loop.  Updates wait in the dispatcher's    *)
(* queue; the application is built without concurrent_updates, so one      *)
(* handler coroutine is in flight at a time.  An action of the model is    *)
(* the code a handler runs between two suspension points: from an await    *)
(* on the network (or from the start of the handler) up to the next one.   *)
(* The two synchronous requests.get calls (resolver, file download) are    *)
(* not awaits: they keep the event-loop thread until they return.          *)
(*                                                                         *)
(* Spec is the program as main() builds it.  Concurrent follows the gate   *)
(* and the rate limiter of /terabox with several handler coroutines in     *)
(* flight at once, interleaved at their await points.                      *)
(***************************************************************************)
EXTENDS Integers, Sequences, FiniteSets, TLC

(***************************************************************************)
(* Bounds of the model.                                                    *)
(***************************************************************************)
Epoch      == 100  \* reading of time.time() when the process starts
Horizon    == 15   \* the clock is followed for this many seconds after that
MaxFiles   == 2    \* files listed by one resolver response
MaxTasks   == 2    \* handler coroutines in flight at once under Concurrent
MaxReq     == 3    \* rate-limiter decisions followed

(***************************************************************************)
(* Program constants and configuration.                                    *)
(***************************************************************************)
ANTI_SPAM_INTERVAL == 15
VideoSizeMB == 100

Users     == {1, 2}
ADMIN_IDS == {1}
\* seconds that can have passed between two readings of the clock
Elapsed   == {0, 5, 10, 15}

(***************************************************************************)
(* Strings the code inspects are sequences of one-character strings.       *)
(***************************************************************************)
Lower(c) ==
  CASE c = "A" -> "a" [] c = "B" -> "b" [] c = "C" -> "c" [] c = "D" -> "d"
    [] c = "E" -> "e" [] c = "F" -> "f" [] c = "G" -> "g" [] c = "H" -> "h"
    [] c = "I" -> "i" [] c = "J" -> "j" [] c = "K" -> "k" [] c = "L" -> "l"
    [] c = "M" -> "m" [] c = "N" -> "n" [] c = "O" -> "o" [] c = "P" -> "p"
    [] c = "Q" -> "q" [] c = "R" -> "r" [] c = "S" -> "s" [] c = "T" -> "t"
    [] c = "U" -> "u" [] c = "V" -> "v" [] c = "W" -> "w" [] c = "X" -> "x"
    [] c = "Y" -> "y" [] c = "Z" -> "z"
    [] OTHER -> c

lower(s) == [i \in 1..Len(s) |-> Lower(s[i])]

endswith(s, suf) ==
  /\ Len(suf) <= Len(s)
  /\ SubSeq(s, Len(s) - Len(suf) + 1, Len(s)) = suf

video_extensions ==
  { <<".", "m", "p", "4">>, <<".", "m", "k", "v">>, <<".", "a", "v", "i">>,
    <<".", "m", "o", "v">>, <<".", "w", "e", "b", "m">>, <<".", "m", "4", "v">> }

photo_extensions ==
  { <<".", "j", "p", "g">>, <<".", "j", "p", "e", "g">>,
    <<".", "p", "n", "g">>, <<".", "g", "i", "f">> }

\* sub in s
Contains(s, sub) ==
  \E i \in 1..(Len(s) - Len(sub) + 1) : SubSeq(s, i, i + Len(sub) - 1) = sub

\* the ASCII characters str.split() takes as whitespace: the space, \t, \n,
\* \r, \f (0x0c), and the control characters 0x0b, 0x1c, 0x1d, 0x1e and
\* 0x1f, which stand in the strings of the second line as themselves
Whitespace ==
  {" ", "\t", "\n", "\r", "\f",
   "", "", "", "", ""}

RECURSIVE lstrip(_)
lstrip(s) ==
  IF s # <<>> /\ Head(s) \in Whitespace THEN lstrip(Tail(s)) ELSE s

RECURSIVE TakeWord(_)
TakeWord(s) ==
  IF s = <<>> \/ Head(s) \in Whitespace THEN <<>>
  ELSE <<Head(s)>> \o TakeWord(Tail(s))

\* s.split()[0], for a string that is not all whitespace
split_first(s) == TakeWord(lstrip(s))

DigitChars == {"0", "1", "2", "3", "4", "5", "6", "7", "8", "9"}

Digit(c) ==
  CASE c = "0" -> 0 [] c = "1" -> 1 [] c = "2" -> 2 [] c = "3" -> 3
    [] c = "4" -> 4 [] c = "5" -> 5 [] c = "6" -> 6 [] c = "7" -> 7
    [] c = "8" -> 8 [] c = "9" -> 9

\* digits, single underscores allowed between them
IsDigitPart(s) ==
  /\ s # <<>>
  /\ s[1] \in DigitChars /\ s[Len(s)] \in DigitChars
  /\ \A i \in 1..Len(s) : s[i] \in DigitChars \cup {"_"}
  /\ \A i \in 1..(Len(s) - 1) : ~(s[i] = "_" /\ s[i + 1] = "_")

IsDigitChar(c) == c \in DigitChars
DigitsOf(s) == SelectSeq(s, IsDigitChar)

RECURSIVE DecimalValue(_)
DecimalValue(ds) ==
  IF ds = <<>> THEN 0
  ELSE 10 * DecimalValue(SubSeq(ds, 1, Len(ds) - 1)) + Digit(ds[Len(ds)])

\* position of the first c in s, 0 when there is none
IndexOf(s, c) ==
  IF \E i \in 1..Len(s) : s[i] = c
  THEN CHOOSE i \in 1..Len(s) : s[i] = c /\ \A j \in 1..(i - 1) : s[j] # c
  ELSE 0

Unsigned(tok) ==
  IF tok # <<>> /\ Head(tok) \in {"+", "-"} THEN Tail(tok) ELSE tok

\* the value of the exponent text of a float literal, 0 when there is none
ExponentValue(expo) ==
  IF expo = <<>> THEN 0
  ELSE IF Head(expo) = "-" THEN 0 - DecimalValue(DigitsOf(expo))
  ELSE DecimalValue(DigitsOf(expo))

\* the float whose literal has integer part ip, fraction fp and, when
\* hasexp, exponent text expo
FloatOfParts(neg, ip, fp, hasexp, expo) ==
  IF /\ ip = <<>> \/ IsDigitPart(ip)
     /\ fp = <<>> \/ IsDigitPart(fp)
     /\ ip # <<>> \/ fp # <<>>
     /\ ~hasexp \/ IsDigitPart(Unsigned(expo))
  THEN [raised |-> FALSE, kind |-> "num", neg |-> neg,
        mantissa |-> DecimalValue(DigitsOf(ip) \o DigitsOf(fp)),
        exp10 |-> ExponentValue(expo) - Len(DigitsOf(fp))]
  ELSE [raised |-> TRUE, kind |-> "ValueError", neg |-> FALSE, mantissa |-> 0, exp10 |-> 0]

\* mant is the text before the exponent, dot the place of its point
FloatOfMantissa(neg, mant, dot, hasexp, expo) ==
  FloatOfParts(neg,
               IF dot = 0 THEN mant ELSE SubSeq(mant, 1, dot - 1),
               IF dot = 0 THEN <<>> ELSE SubSeq(mant, dot + 1, Len(mant)),
               hasexp, expo)

\* l is the lower-cased literal without its sign, epos the place of its e
FloatOfLiteral(neg, l, epos) ==
  IF l \in { <<"i", "n", "f">>, <<"i", "n", "f", "i", "n", "i", "t", "y">> }
  THEN [raised |-> FALSE, kind |-> "inf", neg |-> neg, mantissa |-> 0, exp10 |-> 0]
  ELSE IF l = <<"n", "a", "n">>
  THEN [raised |-> FALSE, kind |-> "nan", neg |-> neg, mantissa |-> 0, exp10 |-> 0]
  ELSE IF epos = 0
  THEN FloatOfMantissa(neg, l, IndexOf(l, "."), FALSE, <<>>)
  ELSE FloatOfMantissa(neg, SubSeq(l, 1, epos - 1),
                       IndexOf(SubSeq(l, 1, epos - 1), "."),
                       TRUE, SubSeq(l, epos + 1, Len(l)))

FloatOfLower(neg, l) == FloatOfLiteral(neg, l, IndexOf(l, "e"))

\* float(tok) for ASCII text of up to nine digits: the float is
\* mantissa * 10^exp10 (negated when neg), or an infinity, or nan; raised
\* when float() raises ValueError.  Whole numbers have exp10 >= 0.
float(tok) ==
  FloatOfLower(tok # <<>> /\ Head(tok) = "-", lower(Unsigned(tok)))

Str_MB == <<"M", "B">>
Str_GB == <<"G", "B">>

\* the float x times unit
Scaled(x, unit) ==
  [raised |-> x.raised, kind |-> x.kind, neg |-> x.neg,
   mantissa |-> x.mantissa, exp10 |-> x.exp10, unit |-> unit]

\* size_bytes of is_likely_video: the float of the first word, times unit
\* bytes (the value is mantissa * 10^exp10 * unit); 0 when the text names
\* neither unit; raised when float() raises
size_bytes(size_str) ==
  IF Contains(size_str, Str_MB)
  THEN Scaled(float(split_first(size_str)), 1024 * 1024)
  ELSE IF Contains(size_str, Str_GB)
  THEN Scaled(float(split_first(size_str)), 1024 * 1024 * 1024)
  ELSE [raised |-> FALSE, kind |-> "num", neg |-> FALSE,
        mantissa |-> 0, exp10 |-> 0, unit |-> 1]

\* a * 10^ea > b * 10^eb, for a natural a and a positive b
GtDecimal(a, ea, b, eb) ==
  IF ea >= eb
  THEN LET d == ea - eb IN a # 0 /\ (d > 9 \/ a > b \div 10^d)
  ELSE LET d == eb - ea IN a # 0 /\ d <= 9 /\ b <= (a - 1) \div 10^d

\* sb > mb * 1024 * 1024, for a size_bytes that did not raise.  Both sides
\* are divided by the unit: 1 / 1024 is 9765625 * 10^-10.
exceeds_mb(sb, mb) ==
  CASE sb.kind = "nan" -> FALSE
    [] sb.kind = "inf" -> ~sb.neg
    [] OTHER ->
       /\ ~sb.neg
       /\ IF sb.unit = 1024 * 1024
          THEN GtDecimal(sb.mantissa, sb.exp10, mb, 0)
          ELSE IF sb.unit = 1024 * 1024 * 1024
          THEN GtDecimal(sb.mantissa, sb.exp10, mb * 9765625, -10)
          ELSE FALSE

\* the return expression of is_likely_video, sb being size_bytes
LikelyVideo(file_info, sb) ==
  IF sb.raised THEN [raised |-> TRUE, value |-> FALSE]
  ELSE [raised |-> FALSE,
        value |-> \/ file_info.category = 1
                  \/ \E ext \in video_extensions : endswith(lower(file_info.name), ext)
                  \/ exceeds_mb(sb, VideoSizeMB)]

\* is_likely_video: the verdict, or raised when line 131 or 133 raises
is_likely_video(file_info) == LikelyVideo(file_info, size_bytes(file_info.size))

is_photo_link(dlink) ==
  \E ext \in photo_extensions : endswith(lower(dlink), ext)

\* is_admin that lets every sender through
is_admin_everyone(user_id) == user_id \in Users

is_admin(user_id) == user_id \in ADMIN_IDS

(***************************************************************************)
(* What the network can answer.                                            *)
(***************************************************************************)
SendResults == {"ok", "BadRequest", "Forbidden", "NetworkError"}

MemberStatuses ==
  {"member", "administrator", "creator", "left", "kicked", "restricted"}
LookupResults == MemberStatuses \cup {"BadRequest", "Forbidden", "NetworkError"}

\* Bodies the resolver can answer with.  kind is the JSON shape of the body
\* ("text" is a body that is no JSON, "obj" an object with at least one
\* key); for an object, success tells whether the key is absent, falsy or
\* truthy and files is -1 (absent) or the length of the list.  An object
\* with neither key holds other keys, as {"error": "not found"} does.
ScalarKinds ==
  {"text", "null", "false", "true", "zero", "number", "empty_string",
   "string", "empty_array", "array", "empty_object"}
Bodies ==
  {[kind |-> k, success |-> "absent", files |-> -1] : k \in ScalarKinds}
  \cup {[kind |-> "obj", success |-> s, files |-> n] :
          s \in {"absent", "falsy", "truthy"}, n \in -1..MaxFiles}
ErrorText == [kind |-> "error_text", success |-> "absent", files |-> -1]
NoReply   == [kind |-> "none", success |-> "absent", files |-> -1]
HttpResults ==
  {[raised |-> FALSE, body |-> b] : b \in Bodies}
  \cup {[raised |-> TRUE, body |-> NoReply]}

\* Files a resolver response can describe.
Str_mp4   == <<"m", ".", "m", "p", "4">>
Str_WEBM  == <<"A", ".", "W", "E", "B", "M">>
Str_bin   == <<"a", ".", "b", "i", "n">>
Str_jpg   == <<"p", ".", "j", "p", "g">>
Str_JPEG  == <<"p", ".", "J", "P", "E", "G">>
Str_5MB   == <<"5", " ", "M", "B">>
Str_100MB == <<"1", "0", "0", " ", "M", "B">>
Str_200MB == <<"2", "0", "0", " ", "M", "B">>
Str_900KB == <<"9", "0", "0", " ", "K", "B">>
Str_1GB   == <<"1", " ", "G", "B">>
Str_7MB   == <<"7", "M", "B">>
FileInfos ==
  { [name |-> Str_mp4,  size |-> Str_200MB, dlink |-> Str_mp4,  isdir |-> TRUE,  category |-> 1],
    [name |-> Str_bin,  size |-> Str_5MB,   dlink |-> <<>>,     isdir |-> FALSE, category |-> 0],
    [name |-> Str_WEBM, size |-> Str_5MB,   dlink |-> Str_bin,  isdir |-> FALSE, category |-> 0],
    [name |-> Str_bin,  size |-> Str_900KB, dlink |-> Str_jpg,  isdir |-> FALSE, category |-> 1],
    [name |-> Str_bin,  size |-> Str_1GB,   dlink |-> Str_bin,  isdir |-> FALSE, category |-> 0],
    [name |-> Str_jpg,  size |-> Str_100MB, dlink |-> Str_JPEG, isdir |-> FALSE, category |-> 0],
    [name |-> Str_bin,  size |-> Str_5MB,   dlink |-> Str_bin,  isdir |-> FALSE, category |-> 0],
    [name |-> Str_bin,  size |-> Str_7MB,   dlink |-> Str_bin,  isdir |-> FALSE, category |-> 0] }
NoFile == [name |-> <<>>, size |-> <<>>, dlink |-> <<>>, isdir |-> FALSE, category |-> 0]

(***************************************************************************)
(* State.                                                                  *)
(***************************************************************************)
VARIABLES
  now,                 \* the latest reading of time.time()
  USER_LAST_TIME,      \* the defaultdict: a function on the keys it holds
  FORCE_JOIN_CHANNEL,  \* TRUE when a gate channel is configured
  ADMIN_GROUP_ID,      \* TRUE when a moderation channel is configured
  pending,             \* TRUE when updates wait in the dispatcher queue
  h,                   \* the handler coroutine in flight
  history,             \* per user, the decisions spam_check has taken, in order
  tasks                \* under Concurrent: the terabox_cmd coroutines in flight

vars == <<now, USER_LAST_TIME, FORCE_JOIN_CHANNEL, ADMIN_GROUP_ID, pending, h, history, tasks>>

Idle ==
  [ pc |-> "idle", kind |-> "none", user |-> 0, args |-> FALSE,
    lookup |-> "none", lookups |-> 0, gate |-> "none", spam |-> "none",
    say |-> "none", replies |-> <<>>, err |-> "none", at |-> "none",
    reply |-> NoReply, resolver_calls |-> 0, downloads |-> 0, left |-> 0,
    file |-> NoFile, path |-> "none", dl |-> "none", flog |-> <<>>,
    todo |-> {}, tried |-> {}, reached |-> {} ]

\* a coroutine slot that runs no handler
Tasks == 1..MaxTasks
IdleTask == [pc |-> "idle", user |-> 0, t |-> 0]

Init ==
  /\ now = Epoch
  /\ USER_LAST_TIME = <<>>
  /\ FORCE_JOIN_CHANNEL \in BOOLEAN
  /\ ADMIN_GROUP_ID \in BOOLEAN
  /\ pending = FALSE
  /\ h = Idle
  /\ history = [u \in Users |-> <<>>]
  /\ tasks = [i \in Tasks |-> IdleTask]

\* rate-limiter decisions taken so far
RECURSIVE SumLen(_, _)
SumLen(f, S) ==
  IF S = {} THEN 0
  ELSE LET u == CHOOSE x \in S : TRUE IN Len(f[u]) + SumLen(f, S \ {u})
Decisions == SumLen(history, Users)

\* the event-loop thread is inside a synchronous requests.get
LoopBlocked == h.pc \in {"fetch", "download"}

(***************************************************************************)
(* Pure functions of the program.                                          *)
(***************************************************************************)
\* USER_LAST_TIME[user_id] of a defaultdict(float)
Get(ult, user_id) == IF user_id \in DOMAIN ult THEN ult[user_id] ELSE 0
Put(ult, user_id, t) ==
  [u \in DOMAIN ult \cup {user_id} |-> IF u = user_id THEN t ELSE ult[u]]

\* spam_check with the boundary second counted as too early
spam_check_inclusive(ult, user_id, t) ==
  IF t - Get(ult, user_id) <= ANTI_SPAM_INTERVAL
  THEN [limited |-> TRUE,  ult |-> Put(ult, user_id, Get(ult, user_id))]
  ELSE [limited |-> FALSE, ult |-> Put(ult, user_id, t)]

\* spam_check: the verdict and the dictionary it leaves behind
spam_check(ult, user_id, t) ==
  IF t - Get(ult, user_id) < ANTI_SPAM_INTERVAL
  THEN [limited |-> TRUE,  ult |-> Put(ult, user_id, Get(ult, user_id))]
  ELSE [limited |-> FALSE, ult |-> Put(ult, user_id, t)]

\* is_joined with one except clause for every TelegramError
is_joined_fail_open(gate_configured, lookup) ==
  IF ~gate_configured THEN TRUE
  ELSE IF lookup \in MemberStatuses
       THEN lookup \in {"member", "administrator", "creator"}
  ELSE TRUE

\* is_joined, given what get_chat_member answers
is_joined(gate_configured, lookup) ==
  IF ~gate_configured THEN TRUE
  ELSE IF lookup \in MemberStatuses
       THEN lookup \in {"member", "administrator", "creator"}
  ELSE IF lookup \in {"BadRequest", "Forbidden"} THEN FALSE
  ELSE TRUE

\* fetch_terabox: the text it returns
fetch_terabox(http) == IF http.raised THEN ErrorText ELSE http.body

\* json.loads inside try/except: None when the text is no JSON
json_loads(reply) ==
  IF reply.kind \in {"text", "error_text"}
  THEN [kind |-> "null", success |-> "absent", files |-> -1]
  ELSE reply

\* Python truthiness of the parsed value
Truthy(data) == data.kind \in {"true", "number", "string", "array", "obj"}

\* what line 300 does with the parsed value
Branch(data) ==
  IF ~Truthy(data) THEN "fallback"
  ELSE IF data.kind # "obj" THEN "AttributeError"
  ELSE IF data.success = "truthy" /\ data.files > 0 THEN "deliver"
  ELSE "fallback"

(***************************************************************************)
(* Steps of a handler, as functions on the handler record.                 *)
(***************************************************************************)
\* await update.effective_message.reply_text(...): the handler's last call
Reply(rec, what) == [rec EXCEPT !.pc = "reply", !.say = what]
Return(rec)      == [rec EXCEPT !.pc = "returned"]
\* an exception leaves the handler; a failed Telegram call raises a
\* TelegramError (BadRequest and Forbidden are subclasses)
Raise(rec, e) ==
  [rec EXCEPT !.pc = "raised", !.at = rec.pc,
              !.err = IF e \in SendResults THEN "TelegramError" ELSE e]

\* is_likely_video(f); for the files of FileInfos it is computed once
VideoVerdicts == [f \in FileInfos |-> is_likely_video(f)]
Verdict(f) == IF f \in FileInfos THEN VideoVerdicts[f] ELSE is_likely_video(f)

\* os.makedirs at line 179 is reached for f
ReachesMakedirs(f) ==
  /\ ~(f.isdir \/ f.dlink = <<>>)
  /\ ~Verdict(f).raised /\ Verdict(f).value

\* StartFile whose folder test looks at the link alone
StartFile_ignores_isdir(rec, f, mk) ==
  LET r == [rec EXCEPT !.file = f, !.flog = <<>>, !.dl = "none"]
      v == Verdict(f) IN
  IF f.dlink = <<>>
  THEN [r EXCEPT !.path = "folder", !.pc = "send_user"]
  ELSE IF v.raised
  THEN [r EXCEPT !.path = "fallback", !.pc = "send_fallback"]
  ELSE IF v.value
  THEN [r EXCEPT !.path = "video", !.pc = IF mk THEN "download" ELSE "send_fallback"]
  ELSE IF is_photo_link(f.dlink)
  THEN [r EXCEPT !.path = "photo", !.pc = "send_user"]
  ELSE [r EXCEPT !.path = "link", !.pc = "send_user"]

\* send_file_to_user_and_group up to its first suspension point; mk tells
\* whether os.makedirs succeeds.  An exception of is_likely_video or of
\* os.makedirs is caught at line 267.
StartFile(rec, f, mk) ==
  LET r == [rec EXCEPT !.file = f, !.flog = <<>>, !.dl = "none"]
      v == Verdict(f) IN
  IF f.isdir \/ f.dlink = <<>>
  THEN [r EXCEPT !.path = "folder", !.pc = "send_user"]
  ELSE IF v.raised
  THEN [r EXCEPT !.path = "fallback", !.pc = "send_fallback"]
  ELSE IF v.value
  THEN [r EXCEPT !.path = "video", !.pc = IF mk THEN "download" ELSE "send_fallback"]
  ELSE IF is_photo_link(f.dlink)
  THEN [r EXCEPT !.path = "photo", !.pc = "send_user"]
  ELSE [r EXCEPT !.path = "link", !.pc = "send_user"]

\* send_file_to_user_and_group returned: the loop of terabox_cmd goes on
NextFile(rec, f, mk) ==
  IF rec.left > 0 THEN StartFile([rec EXCEPT !.left = @ - 1], f, mk)
  ELSE Return(rec)

\* the except clause of send_file_to_user_and_group; the folder branch
\* stands before the try
Except(rec, e) ==
  IF rec.path = "folder" THEN Raise(rec, e)
  ELSE [rec EXCEPT !.pc = "send_fallback"]

\* AfterGate that calls the resolver without looking at the arguments
AfterGate_no_args_check(rec, limited) ==
  IF limited THEN Reply([rec EXCEPT !.spam = "limited"], "please_wait")
  ELSE [rec EXCEPT !.spam = "passed", !.pc = "fetch"]

\* terabox_cmd from the rate limiter up to its first suspension point
AfterGate(rec, limited) ==
  IF limited THEN Reply([rec EXCEPT !.spam = "limited"], "please_wait")
  ELSE IF ~rec.args THEN Reply([rec EXCEPT !.spam = "passed"], "provide_url")
  ELSE [rec EXCEPT !.spam = "passed", !.pc = "fetch"]

\* download_success, video_url and the local file after the download block
download_success(dl) == dl = "ok"
video_url(dl) == IF download_success(dl) THEN "vps_stream_url" ELSE "dlink"
local_file(dl) ==
  CASE dl = "ok" -> "written" [] dl = "empty" -> "empty" [] OTHER -> "absent"

(***************************************************************************)
(* Environment.                                                            *)
(***************************************************************************)
\* a user sends a command; the update waits for the dispatcher
Arrive ==
  /\ ~pending
  /\ pending' = TRUE
  /\ UNCHANGED <<now, USER_LAST_TIME, FORCE_JOIN_CHANNEL, ADMIN_GROUP_ID, tasks, h, history>>

\* the dispatcher takes the next update when no handler is in flight and
\* the event-loop thread is free
CanDispatch == pending /\ h.pc = "idle" /\ ~LoopBlocked

Begin(user_id, kind, args) ==
  [Idle EXCEPT !.kind = kind, !.user = user_id, !.args = args]

\* the update leaves the queue, which may hold more
Dequeue == pending' \in BOOLEAN

Dispatched(rec) ==
  /\ Dequeue
  /\ h' = rec
  /\ UNCHANGED <<now, FORCE_JOIN_CHANNEL, ADMIN_GROUP_ID, tasks>>

(***************************************************************************)
(* Handlers.                                                               *)
(***************************************************************************)
start(user_id) ==
  /\ CanDispatch
  /\ Dispatched(Reply(Begin(user_id, "start", FALSE), "welcome"))
  /\ UNCHANGED <<USER_LAST_TIME, history>>

help_cmd(user_id) ==
  /\ CanDispatch
  /\ Dispatched(Reply(Begin(user_id, "help", FALSE), "help"))
  /\ UNCHANGED <<USER_LAST_TIME, history>>

stats(user_id) ==
  /\ CanDispatch
  /\ LET rec == Begin(user_id, "stats", FALSE) IN
     Dispatched(IF ~is_admin(user_id) THEN Reply(rec, "access_denied")
                ELSE Reply(rec, "stats"))
  /\ UNCHANGED <<USER_LAST_TIME, history>>

ban(user_id, args) ==
  /\ CanDispatch
  /\ LET rec == Begin(user_id, "ban", args) IN
     Dispatched(IF ~is_admin(user_id) THEN Reply(rec, "access_denied")
                ELSE IF ~args THEN Reply(rec, "usage")
                ELSE Reply(rec, "banned_stub"))
  /\ UNCHANGED <<USER_LAST_TIME, history>>

unban(user_id, args) ==
  /\ CanDispatch
  /\ LET rec == Begin(user_id, "unban", args) IN
     Dispatched(IF ~is_admin(user_id) THEN Reply(rec, "access_denied")
                ELSE IF ~args THEN Reply(rec, "usage")
                ELSE Reply(rec, "unbanned_stub"))
  /\ UNCHANGED <<USER_LAST_TIME, history>>

broadcast(user_id, args) ==
  /\ CanDispatch
  /\ LET rec == Begin(user_id, "broadcast", args) IN
     Dispatched(IF ~is_admin(user_id) THEN Reply(rec, "access_denied")
                ELSE IF ~args THEN Reply(rec, "usage")
                ELSE IF DOMAIN USER_LAST_TIME = {} THEN Reply(rec, "broadcast_sent")
                ELSE [rec EXCEPT !.pc = "broadcast", !.todo = DOMAIN USER_LAST_TIME])
  /\ UNCHANGED <<USER_LAST_TIME, history>>

\* BroadcastSendDone without the except TelegramError clause
BroadcastSendDone_stop_on_error(uid, res) ==
  /\ h.pc = "broadcast"
  /\ uid \in h.todo
  /\ LET r == [h EXCEPT !.todo = @ \ {uid}, !.tried = @ \cup {uid},
                        !.reached = IF res = "ok" THEN @ \cup {uid} ELSE @] IN
     h' = IF res # "ok" THEN Raise(r, res)
          ELSE IF r.todo = {} THEN Reply(r, "broadcast_sent") ELSE r
  /\ UNCHANGED <<now, USER_LAST_TIME, FORCE_JOIN_CHANNEL, ADMIN_GROUP_ID, tasks, pending, history>>

\* one send of the broadcast loop comes back
BroadcastSendDone(uid, res) ==
  /\ h.pc = "broadcast"
  /\ uid \in h.todo
  /\ LET r == [h EXCEPT !.todo = @ \ {uid}, !.tried = @ \cup {uid},
                        !.reached = IF res = "ok" THEN @ \cup {uid} ELSE @] IN
     h' = IF r.todo = {} THEN Reply(r, "broadcast_sent") ELSE r
  /\ UNCHANGED <<now, USER_LAST_TIME, FORCE_JOIN_CHANNEL, ADMIN_GROUP_ID, tasks, pending, history>>

\* the rate limiter, run by the handler in flight d seconds after the
\* clock was last read
Limit(rec, d) ==
  LET t == now + d
      c == spam_check(USER_LAST_TIME, rec.user, t) IN
  /\ t <= Epoch + Horizon
  /\ now' = t
  /\ USER_LAST_TIME' = c.ult
  /\ history' = [history EXCEPT ![rec.user] = Append(@, [t |-> t, limited |-> c.limited])]
  /\ h' = AfterGate(rec, c.limited)

terabox_cmd(user_id, args, d) ==
  /\ CanDispatch
  /\ Decisions < MaxReq
  /\ Dequeue
  /\ UNCHANGED <<FORCE_JOIN_CHANNEL, ADMIN_GROUP_ID, tasks>>
  /\ LET rec == Begin(user_id, "terabox", args) IN
     IF FORCE_JOIN_CHANNEL
     THEN /\ h' = [rec EXCEPT !.pc = "lookup", !.lookups = @ + 1]
          /\ UNCHANGED <<now, USER_LAST_TIME, history>>
     ELSE Limit([rec EXCEPT !.gate = "allowed"], d)

\* get_chat_member comes back
LookupDone(res, d) ==
  /\ h.pc = "lookup"
  /\ UNCHANGED <<FORCE_JOIN_CHANNEL, ADMIN_GROUP_ID, tasks, pending>>
  /\ IF is_joined(FORCE_JOIN_CHANNEL, res)
     THEN Limit([h EXCEPT !.lookup = res, !.gate = "allowed"], d)
     ELSE /\ h' = Reply([h EXCEPT !.lookup = res, !.gate = "blocked"], "join_prompt")
          /\ UNCHANGED <<now, USER_LAST_TIME, history>>

\* the last reply_text of a handler comes back
ReplyDone(res) ==
  /\ h.pc = "reply"
  /\ h' = IF res = "ok" THEN Return([h EXCEPT !.replies = Append(@, h.say)])
          ELSE Raise(h, res)
  /\ UNCHANGED <<now, USER_LAST_TIME, FORCE_JOIN_CHANNEL, ADMIN_GROUP_ID, tasks, pending, history>>

\* the resolver call returns; terabox_cmd runs on to its next suspension
FetchDone(http, f, mk) ==
  /\ h.pc = "fetch"
  /\ LET reply == fetch_terabox(http)
         data  == json_loads(reply)
         r     == [h EXCEPT !.reply = reply, !.resolver_calls = @ + 1, !.lookup = "none"] IN
     h' = CASE Branch(data) = "deliver" -> StartFile([r EXCEPT !.left = data.files - 1], f, mk)
            [] Branch(data) = "fallback" -> Reply(r, "safe_reply")
            [] OTHER -> Raise(r, "AttributeError")
  /\ UNCHANGED <<now, USER_LAST_TIME, FORCE_JOIN_CHANNEL, ADMIN_GROUP_ID, tasks, pending, history>>

\* DownloadDone that starts the download again after an error
DownloadDone_retry(res) ==
  /\ h.pc = "download"
  /\ h' = [h EXCEPT !.dl = res, !.downloads = @ + 1,
                    !.pc = IF res = "error" THEN "download" ELSE "send_user"]
  /\ UNCHANGED <<now, USER_LAST_TIME, FORCE_JOIN_CHANNEL, ADMIN_GROUP_ID, tasks, pending, history>>

\* the download block ends: the bytes are on disk, nothing came, or it raised
DownloadDone(res) ==
  /\ h.pc = "download"
  /\ h' = [h EXCEPT !.dl = res, !.downloads = @ + 1, !.pc = "send_user"]
  /\ UNCHANGED <<now, USER_LAST_TIME, FORCE_JOIN_CHANNEL, ADMIN_GROUP_ID, tasks, pending, history>>

Sent(rec, to, as) == [rec EXCEPT !.flog = Append(@, [to |-> to, as |-> as])]

\* the user-facing send of the current file comes back
UserSendDone(res, f, mk) ==
  /\ h.pc = "send_user"
  /\ h' = IF res = "ok"
          THEN LET r == Sent(h, "user", h.path) IN
               IF ADMIN_GROUP_ID THEN [r EXCEPT !.pc = "send_mod"] ELSE NextFile(r, f, mk)
          ELSE Except(h, res)
  /\ UNCHANGED <<now, USER_LAST_TIME, FORCE_JOIN_CHANNEL, ADMIN_GROUP_ID, tasks, pending, history>>

\* the moderation copy comes back
ModSendDone(res, f, mk) ==
  /\ h.pc = "send_mod"
  /\ h' = IF res = "ok" THEN NextFile(Sent(h, "mod", h.path), f, mk)
          ELSE IF res = "BadRequest" THEN [h EXCEPT !.pc = "send_mod_plain"]
          ELSE Except(h, res)
  /\ UNCHANGED <<now, USER_LAST_TIME, FORCE_JOIN_CHANNEL, ADMIN_GROUP_ID, tasks, pending, history>>

\* the plain-text retry of the moderation copy comes back
ModPlainDone(res, f, mk) ==
  /\ h.pc = "send_mod_plain"
  /\ h' = IF res = "ok" THEN NextFile(Sent(h, "mod", "plain"), f, mk)
          ELSE Except(h, res)
  /\ UNCHANGED <<now, USER_LAST_TIME, FORCE_JOIN_CHANNEL, ADMIN_GROUP_ID, tasks, pending, history>>

\* the plain-text fallback to the user comes back
FallbackSendDone(res, f, mk) ==
  /\ h.pc = "send_fallback"
  /\ h' = IF res = "ok"
          THEN LET r == Sent(h, "user", "fallback") IN
               IF ADMIN_GROUP_ID THEN [r EXCEPT !.pc = "send_fallback_mod"] ELSE NextFile(r, f, mk)
          ELSE Raise(h, res)
  /\ UNCHANGED <<now, USER_LAST_TIME, FORCE_JOIN_CHANNEL, ADMIN_GROUP_ID, tasks, pending, history>>

\* the moderation copy of the fallback comes back
FallbackModDone(res, f, mk) ==
  /\ h.pc = "send_fallback_mod"
  /\ h' = IF res = "ok" THEN NextFile(Sent(h, "mod", "fallback"), f, mk)
          ELSE Raise(h, res)
  /\ UNCHANGED <<now, USER_LAST_TIME, FORCE_JOIN_CHANNEL, ADMIN_GROUP_ID, tasks, pending, history>>

\* the handler is over: process_update returns, or the exception reaches
\* error_handler, which logs it
Finish ==
  /\ h.pc \in {"returned", "raised"}
  /\ h' = Idle
  /\ UNCHANGED <<now, USER_LAST_TIME, FORCE_JOIN_CHANNEL, ADMIN_GROUP_ID, tasks, pending, history>>

\* a file that is taken up, with what os.makedirs does when it is reached
Starts ==
  {s \in [file : FileInfos, mk : BOOLEAN] : s.mk \/ ReachesMakedirs(s.file)}

\* the first file of the response, when the response lists files
FirstOf(http) ==
  IF Branch(json_loads(fetch_terabox(http))) = "deliver" THEN Starts
  ELSE {[file |-> NoFile, mk |-> TRUE]}

\* the file the loop of terabox_cmd takes up next, when there is one
Upcoming == IF h.left > 0 THEN Starts ELSE {[file |-> NoFile, mk |-> TRUE]}

Next ==
  \/ Arrive
  \/ \E u \in Users : start(u)
  \/ \E u \in Users : help_cmd(u)
  \/ \E u \in Users : stats(u)
  \/ \E u \in Users, a \in BOOLEAN : ban(u, a)
  \/ \E u \in Users, a \in BOOLEAN : unban(u, a)
  \/ \E u \in Users, a \in BOOLEAN : broadcast(u, a)
  \/ \E u \in Users, res \in SendResults : BroadcastSendDone(u, res)
  \/ \E u \in Users, a \in BOOLEAN, d \in Elapsed : terabox_cmd(u, a, d)
  \/ \E res \in LookupResults, d \in Elapsed : LookupDone(res, d)
  \/ \E res \in SendResults : ReplyDone(res)
  \/ \E http \in HttpResults : \E s \in FirstOf(http) : FetchDone(http, s.file, s.mk)
  \/ \E res \in {"ok", "empty", "error"} : DownloadDone(res)
  \/ \E res \in SendResults, s \in Upcoming : UserSendDone(res, s.file, s.mk)
  \/ \E res \in SendResults, s \in Upcoming : ModSendDone(res, s.file, s.mk)
  \/ \E res \in SendResults, s \in Upcoming : ModPlainDone(res, s.file, s.mk)
  \/ \E res \in SendResults, s \in Upcoming : FallbackSendDone(res, s.file, s.mk)
  \/ \E res \in SendResults, s \in Upcoming : FallbackModDone(res, s.file, s.mk)
  \/ Finish

Spec == Init /\ [][Next]_vars

(***************************************************************************)
(* Concurrent delivery.  The rate limiter is also followed with several    *)
(* terabox_cmd coroutines in flight at once, as they are when updates are  *)
(* processed concurrently: the event loop runs one coroutine at a time and *)
(* takes up another only when the running one is suspended in an await.    *)
(* Here an action is one statement group of lines 80-86 and 276-283, and   *)
(* the scheduling rule, not the grain of the actions, decides what can run *)
(* between two of them.  The behaviours of the sequential dispatcher are   *)
(* those in which a coroutine starts only when every other slot is idle.   *)
(***************************************************************************)
\* AwaitPoints with a suspension point between lines 83 and 85
AwaitPoints_inside_spam_check == {"lookup", "store", "reply", "serve"}

\* where a terabox_cmd coroutine is suspended in an await: get_chat_member
\* (line 93), the reply_text of a rejected command (lines 107, 282), and the
\* awaits of a served command from line 286 on.  Between the compare of
\* line 83 and the store of line 85 ("store") there is none.
AwaitPoints == {"lookup", "reply", "serve"}

\* the event loop can run coroutine i: every other one is suspended or idle
Runnable(i) ==
  \A j \in Tasks \ {i} : tasks[j].pc \in AwaitPoints \cup {"idle"}

\* coroutines that have not reached the compare of line 83 or the store of
\* line 85 yet
Undecided == Cardinality({i \in Tasks : tasks[i].pc \in {"lookup", "store"}})

\* spam_check up to its return or to line 85: the clock is read d seconds
\* after its last reading, the entry is read (a defaultdict read, which
\* inserts a missing key) and compared
ReadCompare(i, user_id, d) ==
  LET t    == now + d
      last == Get(USER_LAST_TIME, user_id) IN
  /\ t <= Epoch + Horizon
  /\ now' = t
  /\ USER_LAST_TIME' = Put(USER_LAST_TIME, user_id, last)
  /\ IF t - last < ANTI_SPAM_INTERVAL
     THEN /\ tasks' = [tasks EXCEPT ![i] = [pc |-> "reply", user |-> user_id, t |-> 0]]
          /\ history' = [history EXCEPT ![user_id] = Append(@, [t |-> t, limited |-> TRUE])]
     ELSE /\ tasks' = [tasks EXCEPT ![i] = [pc |-> "store", user |-> user_id, t |-> t]]
          /\ UNCHANGED history

\* a terabox_cmd coroutine starts and runs to its first suspension point,
\* or into spam_check when no gate channel is configured
TaskStart(i, user_id, d) ==
  /\ tasks[i].pc = "idle"
  /\ Runnable(i)
  /\ Decisions + Undecided < MaxReq
  /\ UNCHANGED <<FORCE_JOIN_CHANNEL, ADMIN_GROUP_ID, pending, h>>
  /\ IF FORCE_JOIN_CHANNEL
     THEN /\ tasks' = [tasks EXCEPT ![i] = [pc |-> "lookup", user |-> user_id, t |-> 0]]
          /\ UNCHANGED <<now, USER_LAST_TIME, history>>
     ELSE ReadCompare(i, user_id, d)

\* get_chat_member comes back to coroutine i
TaskLookupDone(i, res, d) ==
  /\ tasks[i].pc = "lookup"
  /\ Runnable(i)
  /\ UNCHANGED <<FORCE_JOIN_CHANNEL, ADMIN_GROUP_ID, pending, h>>
  /\ IF is_joined(FORCE_JOIN_CHANNEL, res)
     THEN ReadCompare(i, tasks[i].user, d)
     ELSE /\ tasks' = [tasks EXCEPT ![i].pc = "reply"]
          /\ UNCHANGED <<now, USER_LAST_TIME, history>>

\* line 85 and the return of spam_check: the time read at line 82 is stored
\* and the command goes on to be served
TaskStore(i) ==
  /\ tasks[i].pc = "store"
  /\ Runnable(i)
  /\ USER_LAST_TIME' = Put(USER_LAST_TIME, tasks[i].user, tasks[i].t)
  /\ history' = [history EXCEPT ![tasks[i].user] =
                   Append(@, [t |-> tasks[i].t, limited |-> FALSE])]
  /\ tasks' = [tasks EXCEPT ![i].pc = "serve", ![i].t = 0]
  /\ UNCHANGED <<now, FORCE_JOIN_CHANNEL, ADMIN_GROUP_ID, pending, h>>

\* the awaits left to the coroutine come back and it ends; none of the code
\* behind them touches USER_LAST_TIME
TaskEnd(i) ==
  /\ tasks[i].pc \in {"reply", "serve"}
  /\ Runnable(i)
  /\ tasks' = [tasks EXCEPT ![i] = IdleTask]
  /\ UNCHANGED <<now, USER_LAST_TIME, FORCE_JOIN_CHANNEL, ADMIN_GROUP_ID, pending, h, history>>

NextConcurrent ==
  \/ \E i \in Tasks, u \in Users, d \in Elapsed : TaskStart(i, u, d)
  \/ \E i \in Tasks, res \in LookupResults, d \in Elapsed : TaskLookupDone(i, res, d)
  \/ \E i \in Tasks : TaskStore(i)
  \/ \E i \in Tasks : TaskEnd(i)

Concurrent == Init /\ [][NextConcurrent]_vars

(***************************************************************************)
(* Properties.                                                             *)
(***************************************************************************)
\* the time of u's latest served request among the first i-1, 0 when none
RECURSIVE LastServedBefore(_, _)
LastServedBefore(u, i) ==
  IF i <= 1 THEN 0
  ELSE IF ~history[u][i - 1].limited THEN history[u][i - 1].t
  ELSE LastServedBefore(u, i - 1)

\* requests i and i+1 of u came less than the interval apart, and request i
\* came at least the interval after u's previous served one, or is u's first
TwiceWithinInterval(u, i) ==
  /\ i + 1 \in DOMAIN history[u]
  /\ history[u][i + 1].t - history[u][i].t < ANTI_SPAM_INTERVAL
  /\ \/ LastServedBefore(u, i) = 0
     \/ history[u][i].t - LastServedBefore(u, i) >= ANTI_SPAM_INTERVAL

\* C1: of two /terabox commands of one user that pass the gate and reach the
\* rate limiter less than ANTI_SPAM_INTERVAL apart (times are the clock
\* readings spam_check takes), the first coming at least the interval after
\* the user's previous served request or being the user's first, the first
\* is served and the second is rejected; a rejected command does nothing
\* but send the 'Please wait' reply.
C1_ServedOnceRejectedOnce ==
  /\ \A u \in Users : \A i \in DOMAIN history[u] :
       TwiceWithinInterval(u, i)
         => ~history[u][i].limited /\ history[u][i + 1].limited
  /\ h.spam = "limited"
       => /\ h.say = "please_wait"
          /\ h.pc \in {"reply", "returned", "raised"}
          /\ h.replies \in {<<>>, <<"please_wait">>}
          /\ h.resolver_calls = 0 /\ h.file = NoFile

\* C1 witness: a user served at the start and again one interval later sends
\* a third command at once; it was rejected and answered 'Please wait'.
C1_Witness ==
  \E u \in Users :
    /\ Len(history[u]) = 3
    /\ ~history[u][1].limited /\ ~history[u][2].limited
    /\ TwiceWithinInterval(u, 2)
    /\ h.user = u /\ h.spam = "limited"
    /\ h.pc = "returned" /\ h.replies = <<"please_wait">>

\* C2: any two requests of one user that passed spam_check have times
\* (the clock readings of line 82) at least ANTI_SPAM_INTERVAL apart, for
\* every user and under every interleaving of concurrently running
\* terabox_cmd coroutines at their await points.
C2_OneServedPerInterval ==
  \A u \in Users : \A i, j \in DOMAIN history[u] :
    (i < j /\ ~history[u][i].limited /\ ~history[u][j].limited)
      => history[u][j].t - history[u][i].t >= ANTI_SPAM_INTERVAL

\* C2 witness: two coroutines of one user are in flight at once, both
\* served: the second passed spam_check while the first was suspended in
\* one of its awaits.
C2_Witness ==
  \E i, j \in Tasks :
    /\ i # j /\ tasks[i].user = tasks[j].user
    /\ tasks[i].pc = "serve" /\ tasks[j].pc = "serve"
    /\ LET u == tasks[i].user IN
       Cardinality({k \in DOMAIN history[u] : ~history[u][k].limited}) = 2

\* the resolver's reply lacks a truthy success flag or a non-empty file list
Lacking(reply) ==
  LET data == json_loads(reply) IN
  ~(data.kind = "obj" /\ data.success = "truthy" /\ data.files > 0)

\* C3: for every resolver reply that lacks a truthy success flag or a
\* non-empty file list, whatever its JSON shape, terabox_cmd sends the one
\* fallback text reply and returns normally, without raising and without
\* calling send_file_to_user_and_group (Telegram accepting the reply).
C3_FallbackNeverRaises ==
  (h.kind = "terabox" /\ h.reply # NoReply /\ Lacking(h.reply)
     /\ h.err # "TelegramError")
    => /\ h.pc \in {"reply", "returned"}
       /\ h.say = "safe_reply"
       /\ h.file = NoFile
       /\ h.pc = "returned" => h.replies = <<"safe_reply">>

\* C4: while a file whose isdir flag is set is handled, no download is
\* started for it and nothing is sent with send_video or send_photo, to the
\* user or to the moderation channel: only text messages go out.
C4_DirectoryNeverMedia ==
  h.file.isdir
    => /\ h.path = "folder"
       /\ h.pc # "download" /\ h.dl = "none"
       /\ \A i \in DOMAIN h.flog : h.flog[i].as \in {"folder", "plain"}

\* C4 witness: a directory that carries video traits (category 1, .mp4 name
\* and link, 200 MB) went to the user and to the moderation channel as text.
C4_Witness ==
  /\ h.file.isdir /\ is_likely_video(h.file).value /\ h.file.dlink # <<>>
  /\ h.flog = << [to |-> "user", as |-> "folder"], [to |-> "mod", as |-> "folder"] >>
  /\ h.pc = "returned"

\* C5: no exception raised by an external call leaves terabox_cmd.
C5_NoExternalErrorEscapes ==
  ~(h.kind = "terabox" /\ h.pc = "raised" /\ h.err = "TelegramError")

\* C6: send_file_to_user_and_group never raises past its caller when a
\* download, a send_video, a send_photo, a MarkdownV2 send_message or a
\* moderation-channel send fails: delivery ends at the latest in the
\* plain-text fallback to the user.
C6_DeliveryNeverRaises ==
  (h.pc = "raised" /\ h.file # NoFile) => h.at = "send_fallback"

\* C7: without a gate channel is_joined allows without a lookup; with one it
\* allows exactly the statuses member, administrator and creator, blocks when
\* the lookup fails with BadRequest or Forbidden and allows when it fails
\* with another TelegramError; a blocked command sends the join prompt and
\* nothing else.
C7_MembershipGate ==
  /\ ~FORCE_JOIN_CHANNEL
       => h.lookups = 0 /\ h.gate # "blocked"
          /\ (h.kind = "terabox" => h.gate = "allowed")
  /\ (FORCE_JOIN_CHANNEL /\ h.lookup # "none")
       => /\ h.lookups = 1
          /\ h.lookup \in MemberStatuses
               => (h.gate = "allowed"
                     <=> h.lookup \in {"member", "administrator", "creator"})
          /\ h.lookup \in {"BadRequest", "Forbidden"} => h.gate = "blocked"
          /\ h.lookup = "NetworkError" => h.gate = "allowed"
          /\ h.gate \in {"allowed", "blocked"}
  /\ h.gate = "blocked"
       => /\ h.say = "join_prompt"
          /\ h.pc \in {"reply", "returned", "raised"}
          /\ h.replies \in {<<>>, <<"join_prompt">>}
          /\ h.spam = "none" /\ h.resolver_calls = 0 /\ h.file = NoFile
  /\ h.gate = "allowed" => h.spam # "none"

\* C7 witness: the lookup failed with Forbidden; the user got the join
\* prompt and the command ended there.
C7_Witness ==
  /\ FORCE_JOIN_CHANNEL /\ h.lookup = "Forbidden" /\ h.gate = "blocked"
  /\ h.pc = "returned" /\ h.replies = <<"join_prompt">>

AdminKinds == {"stats", "ban", "unban", "broadcast"}

\* the handler in flight runs an admin command for a sender outside ADMIN_IDS
Outsider == h.kind \in AdminKinds /\ h.user \notin ADMIN_IDS

\* C8: an admin command from a sender outside ADMIN_IDS does nothing but
\* reply 'Access denied.': no broadcast send, no stats, and no step of it
\* changes USER_LAST_TIME.
C8_AccessDenied ==
  /\ [](Outsider
          => /\ h.say = "access_denied"
             /\ h.pc \in {"reply", "returned", "raised"}
             /\ h.replies \in {<<>>, <<"access_denied">>}
             /\ h.todo = {} /\ h.tried = {} /\ h.reached = {})
  /\ [][(Outsider \/ Outsider') => USER_LAST_TIME' = USER_LAST_TIME]_vars

\* C8 witness: a /broadcast with text from a sender outside ADMIN_IDS, users
\* being tracked, was answered 'Access denied.'.
C8_Witness ==
  /\ Outsider /\ h.kind = "broadcast" /\ h.args
  /\ DOMAIN USER_LAST_TIME # {}
  /\ h.pc = "returned" /\ h.replies = <<"access_denied">>

\* files of the response send_file_to_user_and_group was called for so far
FilesStarted == IF h.file = NoFile THEN 0 ELSE h.reply.files - h.left

\* C9 as stated: one command triggers at most one resolver request and at
\* most one file download.
C9_AtMostOneDownload == h.resolver_calls <= 1 /\ h.downloads <= 1

\* C9 as amended: one command triggers at most one resolver request and at
\* most one download for each file of the response, none of them retried.
C9_OneDownloadPerFile ==
  /\ h.resolver_calls <= 1
  /\ h.downloads <= FilesStarted
  /\ h.pc = "download" => h.dl = "none"
  /\ h.pc = "fetch" => h.resolver_calls = 0

\* C9 witness: a response listing two videos caused two downloads after the
\* one resolver request.
C9_Witness ==
  h.resolver_calls = 1 /\ h.reply.files = 2 /\ h.downloads = 2 /\ h.pc = "returned"

\* C10: while a download is in progress and an update waits, a command of
\* another user can be picked up.
C10_DownloadOffloaded ==
  (h.pc = "download" /\ pending)
    => ENABLED (\E u \in Users \ {h.user} : help_cmd(u))

\* C11: a /terabox command runs membership gate, rate limiter, resolver call
\* and delivery in this order: the rate limiter decides only for a command
\* the gate allowed, the resolver is called only for a command the gate
\* allowed, the rate limiter passed and that carries a URL argument, a file
\* is delivered only after the one resolver call; and no step of a command
\* that waits for the gate or was blocked by it changes USER_LAST_TIME
\* (a read of a missing key would add the key).
C11_StagesInOrder ==
  /\ [](h.kind = "terabox"
          => /\ h.spam # "none" => h.gate = "allowed"
             /\ (h.pc = "fetch" \/ h.resolver_calls > 0)
                  => h.gate = "allowed" /\ h.spam = "passed" /\ h.args
             /\ (h.gate = "blocked" \/ h.spam = "limited" \/ ~h.args)
                  => h.pc # "fetch" /\ h.resolver_calls = 0 /\ h.reply = NoReply
             /\ h.file # NoFile => h.resolver_calls = 1 /\ h.pc # "fetch"
             /\ h.pc = "lookup" => h.gate = "none" /\ h.spam = "none")
  /\ [][(h'.pc = "lookup" \/ h'.gate = "blocked")
          => USER_LAST_TIME' = USER_LAST_TIME]_vars

\* C11 witness: a user who was served earlier and has an entry was blocked by
\* the gate on a later command that carries a URL; the command ended with
\* the join prompt, the resolver was not called.
C11_Witness ==
  /\ h.kind = "terabox" /\ h.gate = "blocked" /\ h.args
  /\ h.user \in DOMAIN USER_LAST_TIME
  /\ h.pc = "returned" /\ h.replies = <<"join_prompt">>
  /\ h.resolver_calls = 0

\* C12: a file whose stated size is above the size threshold of the code
\* (100 MB, the only size the code compares with) is never downloaded to
\* local storage.
C12_SizeCeiling ==
  (h.file # NoFile /\ exceeds_mb(size_bytes(h.file.size), VideoSizeMB))
    => h.pc # "download" /\ h.dl = "none"

\* the command in flight was rejected: blocked by the gate, rate-limited or
\* sent without a URL argument
Rejected(rec) ==
  rec.kind = "terabox" /\ rec.say \in {"join_prompt", "please_wait", "provide_url"}

\* C13: USER_LAST_TIME holds, for each tracked user, the time of the user's
\* latest request that was forwarded to the resolver: a command on its way
\* to the resolver has its time in the entry, the step that rejects a
\* command (gate-blocked, rate-limited, no URL argument) leaves
\* USER_LAST_TIME as it was, and no step removes a key.
C13_EntryIsLastServed ==
  /\ [](h.pc = "fetch"
          => h.user \in DOMAIN USER_LAST_TIME /\ USER_LAST_TIME[h.user] = now)
  /\ [][(Rejected(h') /\ ~Rejected(h)) => USER_LAST_TIME' = USER_LAST_TIME]_vars
  /\ [][DOMAIN USER_LAST_TIME \subseteq DOMAIN USER_LAST_TIME']_vars

\* C14: for the file being handled the user receives at most one delivery
\* message (folder text, video, photo, link text or plain-text fallback),
\* whatever the user-facing sends and the moderation-channel sends answer.
C14_OneUserMessagePerFile ==
  Cardinality({i \in DOMAIN h.flog : h.flog[i].to = "user"}) <= 1

\* C15: a moderation copy is sent only when ADMIN_GROUP_ID is configured and
\* only after the user-facing message for the same file went out; every
\* moderation copy that fails with BadRequest is followed by one plain-text
\* send to the moderation channel, which is not retried; and the user's
\* delivery is unaffected: whatever that plain-text send answers, the file
\* ends there, with no further message to the user and no exception.
C15_ModerationCopy ==
  /\ h.pc \in {"send_mod", "send_mod_plain", "send_fallback_mod"}
       => ADMIN_GROUP_ID
  /\ \A i \in DOMAIN h.flog :
       h.flog[i].to = "mod"
         => /\ ADMIN_GROUP_ID
            /\ i > 1 /\ h.flog[i - 1].to = "user"
            /\ h.flog[i].as \in {h.flog[i - 1].as, "plain"}
  /\ h.pc \in {"send_mod", "send_mod_plain"}
       => h.flog = << [to |-> "user", as |-> h.path] >>
  /\ h.pc = "send_fallback_mod"
       => h.flog[Len(h.flog)] = [to |-> "user", as |-> "fallback"]
  /\ h.pc = "send_mod"
       => /\ ENABLED (\E s \in Upcoming :
                        /\ ModSendDone("BadRequest", s.file, s.mk)
                        /\ h'.pc = "send_mod_plain" /\ h'.flog = h.flog)
          /\ ~ENABLED (\E s \in Upcoming :
                        /\ ModSendDone("BadRequest", s.file, s.mk)
                        /\ h'.pc # "send_mod_plain")
  /\ h.pc = "send_fallback_mod"
       => ~ENABLED (\E s \in Upcoming :
                       /\ FallbackModDone("BadRequest", s.file, s.mk)
                       /\ h'.pc # "send_mod_plain")
  /\ h.pc = "send_mod_plain"
       => /\ ~ENABLED (\E res \in SendResults, s \in Upcoming :
                         /\ ModPlainDone(res, s.file, s.mk)
                         /\ h'.pc \in {"send_mod", "send_mod_plain"})
          /\ ~ENABLED (\E res \in SendResults, s \in Upcoming :
                         /\ ModPlainDone(res, s.file, s.mk)
                         /\ h'.pc \in {"send_fallback", "raised"})

\* C16: once the download block of the video path is over, the local stream
\* URL is the video source exactly when the local file exists and is not
\* empty, the remote dlink otherwise; and when the download did not succeed
\* (it raised, or nothing was received) no local file is left.
C16_NoFileLeftBehind ==
  (h.path = "video" /\ h.dl # "none")
    => /\ video_url(h.dl) = "vps_stream_url" <=> local_file(h.dl) = "written"
       /\ video_url(h.dl) \in {"vps_stream_url", "dlink"}
       /\ ~download_success(h.dl) => local_file(h.dl) = "absent"

\* the handler in flight runs /broadcast with a text for an admin
Broadcasting == h.kind = "broadcast" /\ h.user \in ADMIN_IDS /\ h.args

\* C17: the keys of USER_LAST_TIME are exactly the users whose /terabox
\* command reached the rate limiter at least once; a /broadcast with text
\* from an admin attempts one send to each of these keys, going on after a
\* send that fails with a TelegramError, and then sends 'Broadcast sent.'
\* to the admin as its last call.
C17_BroadcastReachesAll ==
  /\ DOMAIN USER_LAST_TIME = {u \in Users : history[u] # <<>>}
  /\ Broadcasting
       => /\ h.reached \subseteq h.tried
          /\ h.todo \cap h.tried = {}
          /\ h.todo \cup h.tried = DOMAIN USER_LAST_TIME
          /\ h.pc \in {"broadcast", "reply", "returned", "raised"}
          /\ h.pc = "broadcast" => h.todo # {} /\ h.say = "none"
          /\ h.pc # "broadcast" => h.todo = {} /\ h.say = "broadcast_sent"
          /\ h.pc = "returned" => h.replies = <<"broadcast_sent">>
          /\ h.pc = "raised" => h.at = "reply"

\* C17 witness: both users are tracked; the send to one of them failed, the
\* other was reached, and the admin got 'Broadcast sent.'.
C17_Witness ==
  /\ Broadcasting /\ h.pc = "returned" /\ h.replies = <<"broadcast_sent">>
  /\ h.tried = Users /\ Cardinality(h.reached) = 1

====
